---- MODULE Spec2Model ----
(***************************************************************************)
(* The e-paper image converter of src/app.py: two variants of              *)
(* convert_image_to_epaper_format.  The 6-colour variant rotates portrait  *)
(* rasters, pre-scales, crops to fill, optionally dithers and packs two    *)
(* palette codes per byte; the 7-colour variant letterboxes onto a white   *)
(* canvas and packs one pixel at a time.                                   *)
(***************************************************************************)
EXTENDS Integers, Sequences, FiniteSets, TLC

\* the element of a one-element set: The({ f(v) : v \in {e} }) is f(e) with e
\* computed once
The(S) == CHOOSE u \in S : TRUE

Max(a, b) == IF a >= b THEN a ELSE b
Min(a, b) == IF a <= b THEN a ELSE b

(***************************************************************************)
(* Python floats are IEEE-754 doubles.  The sizes the converter computes   *)
(* go through float division, float multiplication and int() truncation,  *)
(* so the model carries doubles exactly: a double is [m, e] with a 53-bit  *)
(* mantissa m and value m * 2^e.  Mantissas exceed the model checker's     *)
(* integers, so they are little-endian sequences of 15-bit limbs.          *)
(***************************************************************************)
LimbBits == 15
LimbBase == 2 ^ 15
MantBits == 53

\* Arithmetic helpers are functions: a function is applied to the values of
\* its arguments, so every intermediate result is computed once.
Big == Seq(Nat)
Double == [m : Big, e : Int]

Limb(x, i) == IF i <= Len(x) THEN x[i] ELSE 0

BNorm[x \in Big] ==
    IF Len(x) > 0 /\ x[Len(x)] = 0 THEN BNorm[SubSeq(x, 1, Len(x) - 1)] ELSE x

BFromInt[n \in Nat] ==
    IF n = 0 THEN <<>> ELSE <<n % LimbBase>> \o BFromInt[n \div LimbBase]

BToInt[x \in Big] == IF x = <<>> THEN 0 ELSE x[1] + LimbBase * BToInt[Tail(x)]

BCmpFrom[x \in Big, y \in Big, i \in Nat] ==
    IF i = 0 THEN 0
    ELSE IF Limb(x, i) < Limb(y, i) THEN -1
    ELSE IF Limb(x, i) > Limb(y, i) THEN 1
    ELSE BCmpFrom[x, y, i - 1]

\* -1, 0, 1 as x < y, x = y, x > y
BCmp[x \in Big, y \in Big] == BCmpFrom[x, y, Max(Len(x), Len(y))]

BAddFrom[x \in Big, y \in Big, i \in Nat, carry \in Nat] ==
    IF i > Max(Len(x), Len(y))
    THEN IF carry = 0 THEN <<>> ELSE <<carry>>
    ELSE <<(Limb(x, i) + Limb(y, i) + carry) % LimbBase>>
         \o BAddFrom[x, y, i + 1, (Limb(x, i) + Limb(y, i) + carry) \div LimbBase]

BAdd[x \in Big, y \in Big] == BAddFrom[x, y, 1, 0]

BSubFrom[x \in Big, y \in Big, i \in Nat, borrow \in Nat] ==
    IF i > Len(x) THEN <<>>
    ELSE IF Limb(x, i) - Limb(y, i) - borrow < 0
    THEN <<Limb(x, i) - Limb(y, i) - borrow + LimbBase>> \o BSubFrom[x, y, i + 1, 1]
    ELSE <<Limb(x, i) - Limb(y, i) - borrow>> \o BSubFrom[x, y, i + 1, 0]

\* x - y for x >= y
BSub[x \in Big, y \in Big] == BNorm[BSubFrom[x, y, 1, 0]]

BMulSmallFrom[x \in Big, k \in Nat, i \in Nat, carry \in Nat] ==
    IF i > Len(x)
    THEN IF carry = 0 THEN <<>> ELSE <<carry>>
    ELSE <<(x[i] * k + carry) % LimbBase>>
         \o BMulSmallFrom[x, k, i + 1, (x[i] * k + carry) \div LimbBase]

\* x * k for 0 <= k <= LimbBase
BMulSmall[x \in Big, k \in Nat] == BNorm[BMulSmallFrom[x, k, 1, 0]]

BShlLimbs[x \in Big, n \in Nat] ==
    IF x = <<>> \/ n = 0 THEN x ELSE [i \in 1..n |-> 0] \o x

BMulFrom[x \in Big, y \in Big, i \in Nat] ==
    IF i > Len(y) THEN <<>>
    ELSE BAdd[BShlLimbs[BMulSmall[x, y[i]], i - 1], BMulFrom[x, y, i + 1]]

BMul[x \in Big, y \in Big] == BMulFrom[x, y, 1]

\* x * 2^s
BShl[x \in Big, s \in Nat] ==
    BShlLimbs[BMulSmall[x, 2 ^ (s % LimbBits)], s \div LimbBits]

BDivSmallFrom[x \in Big, k \in Nat, i \in Nat, rem \in Nat] ==
    IF i = 0 THEN <<>>
    ELSE BDivSmallFrom[x, k, i - 1, (rem * LimbBase + x[i]) % k]
         \o <<(rem * LimbBase + x[i]) \div k>>

\* x \div 2^s
BShr[x \in Big, s \in Nat] ==
    IF s \div LimbBits >= Len(x) THEN <<>>
    ELSE BNorm[BDivSmallFrom[SubSeq(x, (s \div LimbBits) + 1, Len(x)),
                             2 ^ (s % LimbBits), Len(x) - (s \div LimbBits), 0]]

\* x % 2^s
BLowBits[x \in Big, s \in Nat] == BSub[x, BShl[BShr[x, s], s]]

IntBitLen[n \in Nat] == IF n = 0 THEN 0 ELSE 1 + IntBitLen[n \div 2]

BBitLen[x \in Big] ==
    IF x = <<>> THEN 0 ELSE LimbBits * (Len(x) - 1) + IntBitLen[x[Len(x)]]

BBit(x, i) == (Limb(x, (i \div LimbBits) + 1) \div (2 ^ (i % LimbBits))) % 2

\* the largest g in lo..hi with d * g <= cur
BDigit[cur \in Big, d \in Big, lo \in Nat, hi \in Nat] ==
    IF lo >= hi THEN lo
    ELSE IF BCmp[BMulSmall[d, (lo + hi + 1) \div 2], cur] <= 0
    THEN BDigit[cur, d, (lo + hi + 1) \div 2, hi]
    ELSE BDigit[cur, d, lo, ((lo + hi + 1) \div 2) - 1]

\* cur \div LimbBase^k as an integer (below LimbBase^2 where it is used)
BTop(cur, k) == Limb(cur, k + 1) + LimbBase * Limb(cur, k + 2)

\* The quotient digit of cur by d.  The top limb of d is at least
\* LimbBase / 2, so the digit lies between the two estimates drawn from the
\* leading limbs.
BDigitOf[cur \in Big, d \in Big] ==
    BDigit[cur, d, BTop(cur, Len(d) - 1) \div (d[Len(d)] + 1),
           Min(LimbBase - 1, BTop(cur, Len(d) - 1) \div d[Len(d)])]

BDivPut[acc \in Seq(Big), cur \in Big, d \in Big, g \in Nat] ==
    << <<g>> \o acc[1], BSub[cur, BMulSmall[d, g]] >>

\* one step of long division: acc = <<quotient so far, remainder>>
BDivStep[acc \in Seq(Big), limb \in Nat, d \in Big, cur \in Big] ==
    BDivPut[acc, cur, d, BDigitOf[cur, d]]

\* long division of n by d, one limb of n at a time, from the top
BDivModFrom[n \in Big, d \in Big, i \in Nat, acc \in Seq(Big)] ==
    IF i = 0 THEN <<BNorm[acc[1]], acc[2]>>
    ELSE BDivModFrom[n, d, i - 1,
                     BDivStep[acc, n[i], d, BNorm[<<n[i]>> \o acc[2]]]]

BDivScaled[n \in Big, d \in Big, sh \in Nat] ==
    BDivModFrom[BShl[n, sh], BShl[d, sh], Len(BShl[n, sh]), << <<>>, <<>> >>]

\* <<quotient, remainder * 2^sh>> of n by d (d > 0): the remainder is zero
\* exactly when n is a multiple of d
BDivMod[n \in Big, d \in Big] ==
    BDivScaled[n, d, LimbBits - IntBitLen[d[Len(d)]]]

FZero == [m |-> <<>>, e |-> 0]

FNormal[q \in Big, ex \in Int] ==
    IF BBitLen[q] > MantBits THEN [m |-> BShr[q, 1], e |-> ex + 1]
    ELSE [m |-> q, e |-> ex]

\* q rounded up when the cut-off part, compared with one half (c), says so:
\* to nearest, ties to even
FRoundPick[q \in Big, c \in Int, ex \in Int, sticky \in BOOLEAN] ==
    IF c > 0 \/ (c = 0 /\ sticky) \/ (c = 0 /\ ~sticky /\ BBit(q, 0) = 1)
    THEN FNormal[BAdd[q, <<1>>], ex]
    ELSE FNormal[q, ex]

FRoundCut[n \in Big, ex \in Int, sticky \in BOOLEAN, s \in Nat] ==
    FRoundPick[BShr[n, s], BCmp[BLowBits[n, s], BShl[<<1>>, s - 1]], ex + s, sticky]

FRoundLen[n \in Big, ex \in Int, sticky \in BOOLEAN, len \in Nat] ==
    IF len = 0 THEN FZero
    ELSE IF len <= MantBits
    THEN [m |-> BShl[n, MantBits - len], e |-> ex - (MantBits - len)]
    ELSE FRoundCut[n, ex, sticky, len - MantBits]

\* The double nearest to (n + t) * 2^ex, where 0 <= t < 1 and sticky says
\* t > 0 (n then has more than MantBits bits).
FRound[n \in Big, ex \in Int, sticky \in BOOLEAN] ==
    FRoundLen[n, ex, sticky, BBitLen[n]]

\* float(n) for an int n >= 0
FFromInt[n \in Nat] == FRound[BFromInt[n], 0, FALSE]

FDivRound[qr \in Seq(Big), ex \in Int] == FRound[qr[1], ex, qr[2] # <<>>]

\* a / b, correctly rounded (a >= 0, b > 0)
FDiv[a \in Double, b \in Double] ==
    IF a.m = <<>> THEN FZero
    ELSE FDivRound[BDivMod[BShl[a.m, MantBits + 3], b.m],
                   a.e - b.e - (MantBits + 3)]

\* a * b, correctly rounded
FMul[a \in Double, b \in Double] ==
    IF a.m = <<>> \/ b.m = <<>> THEN FZero
    ELSE FRound[BMul[a.m, b.m], a.e + b.e, FALSE]

FAlignAt[a \in Double, b \in Double, ex \in Int] ==
    [x |-> IF a.m = <<>> THEN <<>> ELSE BShl[a.m, a.e - ex],
     y |-> IF b.m = <<>> THEN <<>> ELSE BShl[b.m, b.e - ex],
     e |-> ex]

\* the two mantissas over the common exponent
FAlign[a \in Double, b \in Double] ==
    FAlignAt[a, b, IF a.m = <<>> THEN b.e
                   ELSE IF b.m = <<>> THEN a.e ELSE Min(a.e, b.e)]

\* two mantissas brought to the common exponent e
Aligned == [x : Big, y : Big, e : Int]

FCmpAligned[al \in Aligned] == BCmp[al.x, al.y]

\* -1, 0, 1 as a < b, a = b, a > b
FCmp[a \in Double, b \in Double] == FCmpAligned[FAlign[a, b]]

FAbsDiffAligned[al \in Aligned] ==
    IF BCmp[al.x, al.y] >= 0
    THEN FRound[BSub[al.x, al.y], al.e, FALSE]
    ELSE FRound[BSub[al.y, al.x], al.e, FALSE]

\* abs(a - b), correctly rounded
FAbsDiff[a \in Double, b \in Double] == FAbsDiffAligned[FAlign[a, b]]

\* math.floor(a) and int(a) for a >= 0 below 2^31
FFloor[a \in Double] ==
    IF a.m = <<>> THEN 0
    ELSE IF a.e >= 0 THEN BToInt[BShl[a.m, a.e]]
    ELSE BToInt[BShr[a.m, -a.e]]

FIsInt[a \in Double] ==
    \/ a.m = <<>>
    \/ a.e >= 0
    \/ BLowBits[a.m, -a.e] = <<>>

\* math.ceil(a) for a >= 0
FCeil[a \in Double] == IF FIsInt[a] THEN FFloor[a] ELSE FFloor[a] + 1

(***************************************************************************)
(* Configuration and state.                                                *)
(***************************************************************************)
VARIABLES
    EPD_WIDTH,    \* module-level display width
    EPD_HEIGHT,   \* module-level display height
    PALETTE,      \* module-level 6-colour palette, in dict order
    requests,     \* the uploads callers may submit
    call,         \* per running conversion: its locals and its position
    heap,         \* the bytearrays the conversions allocated
    probe,        \* an RGB triple handed to the nearest-colour functions
    answer        \* what the nearest-colour functions returned for it

vars == <<EPD_WIDTH, EPD_HEIGHT, PALETTE, requests, call, heap, probe, answer>>

PanelWidth == 800
PanelHeight == 480
PreScaleWidth == 2400
PreScaleHeight == 1440

\* PALETTE of the 6-colour variant; a dict iterates in insertion order
Palette6 ==
    << [name |-> "black",  rgb |-> <<0, 0, 0>>,       code |-> 0],
       [name |-> "white",  rgb |-> <<255, 255, 255>>, code |-> 1],
       [name |-> "yellow", rgb |-> <<255, 255, 0>>,   code |-> 2],
       [name |-> "red",    rgb |-> <<200, 80, 50>>,   code |-> 3],
       [name |-> "blue",   rgb |-> <<100, 120, 180>>, code |-> 5],
       [name |-> "green",  rgb |-> <<200, 200, 80>>,  code |-> 6] >>

\* COLOR_RGB of the 7-colour variant; an entry's code is its index
COLOR_RGB ==
    << <<0, 0, 0>>, <<255, 255, 255>>, <<0, 255, 0>>, <<0, 0, 255>>,
       <<255, 0, 0>>, <<255, 255, 0>>, <<255, 128, 0>> >>

(***************************************************************************)
(* Nearest colour.                                                         *)
(***************************************************************************)
\* the distance with the blue channel left out
DistanceTwoChannels(rgb, prgb) ==
    (rgb[1] - prgb[1]) * (rgb[1] - prgb[1])
    + (rgb[2] - prgb[2]) * (rgb[2] - prgb[2])

\* (r - pr)**2 + (g - pg)**2 + (b - pb)**2
Distance(rgb, prgb) ==
    (rgb[1] - prgb[1]) * (rgb[1] - prgb[1])
    + (rgb[2] - prgb[2]) * (rgb[2] - prgb[2])
    + (rgb[3] - prgb[3]) * (rgb[3] - prgb[3])

\* min_distance starts as float('inf'): every distance is below it
Infinity == [finite |-> FALSE, val |-> 0]

CloserLastWins(distance, min_distance) ==
    ~min_distance.finite \/ distance <= min_distance.val

\* distance < min_distance
Closer(distance, min_distance) ==
    ~min_distance.finite \/ distance < min_distance.val

\* the loop of rgb_to_palette_code from entry i on
RECURSIVE PaletteScan(_, _, _, _, _)
PaletteScan(palette, rgb, i, min_distance, closest_code) ==
    IF i > Len(palette) THEN closest_code
    ELSE LET distance == Distance(rgb, palette[i].rgb)
         IN  IF Closer(distance, min_distance)
             THEN PaletteScan(palette, rgb, i + 1,
                              [finite |-> TRUE, val |-> distance], palette[i].code)
             ELSE PaletteScan(palette, rgb, i + 1, min_distance, closest_code)

\* the position of the nearest entry (from 0) in place of its code
PositionOfNearest(palette, rgb) ==
    (CHOOSE i \in 1..Len(palette) :
        palette[i].code = PaletteScan(palette, rgb, 1, Infinity, 1)) - 1

\* closest_code starts as 0x1 and is returned after the loop
rgb_to_palette_code(palette, rgb) == PaletteScan(palette, rgb, 1, Infinity, 1)

\* the loop of find_closest_color from index i on (indices from 0)
RECURSIVE ColorScan(_, _, _, _)
ColorScan(rgb, i, min_distance, closest_color) ==
    IF i >= Len(COLOR_RGB) THEN closest_color
    ELSE LET distance == Distance(rgb, COLOR_RGB[i + 1])
         IN  IF Closer(distance, min_distance)
             THEN ColorScan(rgb, i + 1, [finite |-> TRUE, val |-> distance], i)
             ELSE ColorScan(rgb, i + 1, min_distance, closest_color)

find_closest_color(rgb) == ColorScan(rgb, 0, Infinity, 0)

(***************************************************************************)
(* Rasters.  A raster is kept as the recipe that produced it, so that a    *)
(* pixel is computed only when a step reads it.                            *)
(***************************************************************************)
Black == <<0, 0, 0>>
White == <<255, 255, 255>>

\* pixel values the uploaded rasters are made of
Samples ==
    << <<0, 0, 0>>, <<255, 255, 255>>, <<200, 125, 125>>, <<100, 120, 180>>,
       <<255, 128, 0>>, <<30, 200, 40>>, <<250, 240, 10>>, <<0, 128, 128>>,
       <<210, 70, 60>>, <<190, 190, 90>>, <<20, 30, 250>> >>

NoImage == [op |-> "none", w |-> 0, h |-> 0]

\* the decoded RGB raster of an upload
Decoded(width, height, seed) ==
    [op |-> "decoded", w |-> width, h |-> height, seed |-> seed]

\* img.rotate(90, expand=True): a quarter turn counter-clockwise
Rotated(img) == [op |-> "rotate", w |-> img.h, h |-> img.w, of |-> img]

\* img.resize((width, height), LANCZOS)
Resized(img, width, height) ==
    [op |-> "resize", w |-> width, h |-> height, of |-> img]

\* img.crop((left, top, right, bottom))
Cropped(img, left, top, right, bottom) ==
    [op |-> "crop", w |-> right - left, h |-> bottom - top,
     left |-> left, top |-> top, of |-> img]

\* Image.new('RGB', (width, height), white) with img pasted at the offset
Pasted(img, width, height, x_offset, y_offset) ==
    [op |-> "paste", w |-> width, h |-> height,
     left |-> x_offset, top |-> y_offset, of |-> img]

\* a raster held pixel by pixel, row-major
Pixels(width, height, px) == [op |-> "pixels", w |-> width, h |-> height, px |-> px]

InBox(img, col, row) == col >= 0 /\ col < img.w /\ row >= 0 /\ row < img.h

\* Where pixel (col, row) of a cropped or pasted raster comes from: the
\* raster below it, the fill of a crop box that leaves the raster, or the
\* canvas background.
PixelOrigin(img, col, row) ==
    IF img.op = "crop"
    THEN IF InBox(img.of, col + img.left, row + img.top)
         THEN [kind |-> "image", col |-> col + img.left, row |-> row + img.top]
         ELSE [kind |-> "fill", col |-> 0, row |-> 0]
    ELSE IF InBox(img.of, col - img.left, row - img.top)
         THEN [kind |-> "image", col |-> col - img.left, row |-> row - img.top]
         ELSE [kind |-> "background", col |-> 0, row |-> 0]

\* img.getpixel((col, row)) for a position inside the raster.  The Lanczos
\* filter is a fixed function of the source raster and the two sizes; the
\* model takes the source pixel under the centre of the output pixel.
RECURSIVE getpixel(_, _, _)
getpixel(img, col, row) ==
    CASE img.op = "decoded" ->
            Samples[((3 * col + 5 * row + img.seed) % Len(Samples)) + 1]
      [] img.op = "rotate" -> getpixel(img.of, img.of.w - 1 - row, col)
      [] img.op = "resize" ->
            getpixel(img.of, ((2 * col + 1) * img.of.w) \div (2 * img.w),
                             ((2 * row + 1) * img.of.h) \div (2 * img.h))
      [] img.op = "crop" ->
            LET from == PixelOrigin(img, col, row)
            IN  IF from.kind = "image" THEN getpixel(img.of, from.col, from.row)
                ELSE Black
      [] img.op = "paste" ->
            LET from == PixelOrigin(img, col, row)
            IN  IF from.kind = "image" THEN getpixel(img.of, from.col, from.row)
                ELSE White
      [] img.op = "pixels" -> img.px[row * img.w + col + 1]

(***************************************************************************)
(* Image.thumbnail of the imaging library: the size that preserves the     *)
(* aspect ratio within (boxw, boxh), computed in floats.                   *)
(***************************************************************************)
\* abs(aspect - n / y)
KeyWidth[aspect \in Double, n \in Nat, boxh \in Nat] ==
    FAbsDiff[aspect, FDiv[FFromInt[n], FFromInt[boxh]]]

\* 0 if n == 0 else abs(aspect - x / n)
KeyHeight[aspect \in Double, n \in Nat, boxw \in Nat] ==
    IF n = 0 THEN FZero ELSE FAbsDiff[aspect, FDiv[FFromInt[boxw], FFromInt[n]]]

\* min(lo, hi, key=key) keeps lo, the first, when the keys are equal
MinByKey[lo \in Nat, hi \in Nat, keylo \in Double, keyhi \in Double] ==
    IF FCmp[keyhi, keylo] < 0 THEN hi ELSE lo

\* x = round_aspect(y * aspect, key=lambda n: abs(aspect - n / y))
RoundWidth[aspect \in Double, boxh \in Nat, lo \in Nat, hi \in Nat] ==
    Max(MinByKey[lo, hi, KeyWidth[aspect, lo, boxh], KeyWidth[aspect, hi, boxh]], 1)

\* y = round_aspect(x / aspect, key=lambda n: 0 if n == 0 else abs(aspect - x / n))
RoundHeight[aspect \in Double, boxw \in Nat, lo \in Nat, hi \in Nat] ==
    Max(MinByKey[lo, hi, KeyHeight[aspect, lo, boxw], KeyHeight[aspect, hi, boxw]], 1)

FloorCeil[number \in Double] == <<FFloor[number], FCeil[number]>>

AspectSize[aspect \in Double, boxw \in Nat, boxh \in Nat] ==
    IF FCmp[FDiv[FFromInt[boxw], FFromInt[boxh]], aspect] >= 0
    THEN The({ <<RoundWidth[aspect, boxh, fc[1], fc[2]], boxh>> :
               fc \in {FloorCeil[FMul[FFromInt[boxh], aspect]]} })
    ELSE The({ <<boxw, RoundHeight[aspect, boxw, fc[1], fc[2]]>> :
               fc \in {FloorCeil[FDiv[FFromInt[boxw], aspect]]} })

\* the size left as it is
ThumbnailSizeKeep(width, height, boxw, boxh) == <<width, height>>

\* preserve_aspect_ratio() of Image.thumbnail
ThumbnailSize(width, height, boxw, boxh) ==
    IF boxw >= width /\ boxh >= height THEN <<width, height>>
    ELSE AspectSize[FDiv[FFromInt[width], FFromInt[height]], boxw, boxh]

\* img.thumbnail((boxw, boxh), LANCZOS): resized only when the size changes
Thumbnail(img, boxw, boxh) ==
    The({ IF size = <<img.w, img.h>> THEN img ELSE Resized(img, size[1], size[2]) :
          size \in {ThumbnailSize(img.w, img.h, boxw, boxh)} })

(***************************************************************************)
(* Floyd-Steinberg dithering onto the palette image built from PALETTE.    *)
(***************************************************************************)
Entry(palette, name) ==
    palette[CHOOSE i \in 1..Len(palette) : palette[i].name = name]

\* palette_data: the six colours by name, then the zero padding to 256
PaletteData(palette) ==
    [i \in 1..6 |->
        Entry(palette, <<"black", "white", "yellow", "red", "blue", "green">>[i]).rgb]
    \o <<Black>>

RECURSIVE NearestFrom(_, _, _, _)
NearestFrom(data, rgb, i, best) ==
    IF i > Len(data) THEN data[best]
    ELSE IF Distance(rgb, data[i]) < Distance(rgb, data[best])
         THEN NearestFrom(data, rgb, i + 1, i)
         ELSE NearestFrom(data, rgb, i + 1, best)

Clamp(v) == IF v < 0 THEN 0 ELSE IF v > 255 THEN 255 ELSE v

\* integer division rounding towards zero
Quot(a, b) == IF a >= 0 THEN a \div b ELSE -((-a) \div b)

\* the share of the error of (col, row) that pixel (jc, jr) receives, in 16ths
Weight(col, row, jc, jr) ==
    IF jr = row /\ jc = col + 1 THEN 7
    ELSE IF jr = row + 1 /\ jc = col - 1 THEN 3
    ELSE IF jr = row + 1 /\ jc = col THEN 5
    ELSE IF jr = row + 1 /\ jc = col + 1 THEN 1
    ELSE 0

\* channel triples (errors may be negative) and sequences of them
Rgb == Seq(Int)
RgbSeq == Seq(Rgb)

\* the error pixel k leaves, spread over the pixels after it
Diffuse[width \in Nat, k \in Nat, err \in Seq(Int), acc \in Seq(Seq(Int))] ==
    [j \in 1..Len(acc) |->
        [ch \in 1..3 |->
            acc[j][ch]
            + Weight(k % width, k \div width, (j - 1) % width, (j - 1) \div width)
              * err[ch]]]

DitherPut[width \in Nat, k \in Nat, cur \in Rgb, chosen \in Rgb, acc \in RgbSeq, out \in RgbSeq] ==
    <<Diffuse[width, k, [ch \in 1..3 |-> cur[ch] - chosen[ch]], acc],
      Append(out, chosen)>>

\* pixel k: the original plus the error received, clamped, then the nearest
\* palette colour; st = <<errors received, pixels chosen so far>>
DitherPixel[width \in Nat, k \in Nat, data \in RgbSeq, cur \in Rgb, st \in Seq(RgbSeq)] ==
    DitherPut[width, k, cur, NearestFrom(data, cur, 2, 1), st[1], st[2]]

\* pixels k.. in scan order
RECURSIVE DitherFrom(_, _, _, _)
DitherFrom(img, data, k, st) ==
    IF k >= img.w * img.h THEN st[2]
    ELSE The({ DitherFrom(img, data, k + 1, nxt) :
               nxt \in {DitherPixel[img.w, k, data,
                           [ch \in 1..3 |->
                               Clamp(getpixel(img, k % img.w, k \div img.w)[ch]
                                     + Quot(st[1][k + 1][ch], 16))],
                           st]} })

\* img.quantize(palette=palette_img, dither=FLOYDSTEINBERG).convert('RGB')
Dithered(img, palette) ==
    Pixels(img.w, img.h,
           DitherFrom(img, PaletteData(palette), 0,
                      <<[j \in 1..(img.w * img.h) |-> <<0, 0, 0>>], <<>>>>))

(***************************************************************************)
(* Bytes.                                                                  *)
(***************************************************************************)
RECURSIVE BitOr(_, _)
BitOr(a, b) ==
    IF a = 0 THEN b
    ELSE IF b = 0 THEN a
    ELSE (IF a % 2 = 1 \/ b % 2 = 1 THEN 1 ELSE 0) + 2 * BitOr(a \div 2, b \div 2)

RECURSIVE BitAnd(_, _)
BitAnd(a, b) ==
    IF a = 0 \/ b = 0 THEN 0
    ELSE (IF a % 2 = 1 /\ b % 2 = 1 THEN 1 ELSE 0) + 2 * BitAnd(a \div 2, b \div 2)

PackPairSwapped(code1, code2) == BitOr(code2 * 16, code1)

\* (code1 << 4) | code2
PackPair(code1, code2) == BitOr(code1 * 16, code2)

FrameLengthPerPixel(width, height) == width * height

\* EPD_WIDTH * EPD_HEIGHT // 2
FrameLength(width, height) == (width * height) \div 2

\* bytearray(n)
ByteArray(n) == [i \in 1..n |-> 0]

(***************************************************************************)
(* The locals of one conversion and the steps of the two variants.  A step *)
(* maps the locals (and the bytearray, for the packing steps) to their     *)
(* values after the lines it stands for.                                   *)
(***************************************************************************)
NoRequest ==
    [variant |-> "none", width |-> 0, height |-> 0, seed |-> 0,
     use_dithering |-> FALSE]

IdleCall ==
    [pc |-> "idle", req |-> NoRequest, img |-> NoImage, img_ratio |-> FZero,
     new_width |-> 0, new_height |-> 0, left |-> 0, top |-> 0,
     x_offset |-> 0, y_offset |-> 0, row |-> 0, col |-> 0,
     buf |-> "", err |-> "", ret |-> <<>>]

Raise(s, kind) == [s EXCEPT !.pc = "error", !.err = kind]

\* Image.open(image_file) and the conversion to RGB
DoOpen(s, req) ==
    [s EXCEPT !.pc = IF req.variant = "six" THEN "rotate" ELSE "thumbnail",
              !.req = req,
              !.img = Decoded(req.width, req.height, req.seed)]

\* ---- 6-colour variant ----

\* if img.height > img.width: img = img.rotate(90, expand=True)
DoRotate(s) ==
    [s EXCEPT !.pc = "prescale",
              !.img = IF s.img.h > s.img.w THEN Rotated(s.img) ELSE s.img]

\* the pre-scale with the test of the height left out
DoPreScaleWidthOnly(s) ==
    [s EXCEPT !.pc = "fit",
              !.img = IF s.img.w > PreScaleWidth
                      THEN Thumbnail(s.img, PreScaleWidth, PreScaleHeight)
                      ELSE s.img]

\* if img.width > 2400 or img.height > 1440: img.thumbnail((2400, 1440))
DoPreScale(s) ==
    [s EXCEPT !.pc = "fit",
              !.img = IF s.img.w > PreScaleWidth \/ s.img.h > PreScaleHeight
                      THEN Thumbnail(s.img, PreScaleWidth, PreScaleHeight)
                      ELSE s.img]

IsWiderFlipped(img_ratio, display_ratio) == FCmp[img_ratio, display_ratio] < 0

\* img_ratio > display_ratio
IsWider(img_ratio, display_ratio) == FCmp[img_ratio, display_ratio] > 0

\* <<new_width, new_height>>: scale by height when the image is wider than
\* the display, by width otherwise; int() truncates
FillSize[img_ratio \in Double, width \in Nat, height \in Nat] ==
    IF IsWider(img_ratio, FDiv[FFromInt[width], FFromInt[height]])
    THEN <<FFloor[FMul[FFromInt[height], img_ratio]], height>>
    ELSE <<width, FFloor[FDiv[FFromInt[width], img_ratio]]>>

\* <<img_ratio, <<new_width, new_height>>>>
FillFor[width \in Nat, height \in Nat, img_ratio \in Double] ==
    <<img_ratio, FillSize[img_ratio, width, height]>>

\* the crop-to-fill size and the resize to it
DoFit(s, width, height) ==
    The({ [s EXCEPT !.pc = "crop",
                    !.img_ratio = fill[1],
                    !.new_width = fill[2][1],
                    !.new_height = fill[2][2],
                    !.img = Resized(s.img, fill[2][1], fill[2][2])] :
          fill \in {FillFor[width, height,
                            FDiv[FFromInt[s.img.w], FFromInt[s.img.h]]]} })

\* the centred crop box
DoCrop(s, width, height) ==
    LET left == (s.new_width - width) \div 2
        top  == (s.new_height - height) \div 2
    IN  [s EXCEPT !.pc = "dither",
                  !.left = left,
                  !.top = top,
                  !.img = Cropped(s.img, left, top, left + width, top + height)]

\* if use_dithering: quantize to the palette image and convert back to RGB
DoDither(s, palette) ==
    [s EXCEPT !.pc = "alloc6",
              !.img = IF s.req.use_dithering THEN Dithered(s.img, palette)
                      ELSE s.img]

\* one pass of the inner loop: two pixels into one byte
DoPackPair(s, buf, width, height, palette) ==
    IF ~InBox(s.img, s.col, s.row) \/ ~InBox(s.img, s.col + 1, s.row)
    THEN [s |-> Raise(s, "IndexError"), buf |-> buf]
    ELSE LET code1      == rgb_to_palette_code(palette, getpixel(s.img, s.col, s.row))
             code2      == rgb_to_palette_code(palette, getpixel(s.img, s.col + 1, s.row))
             byte_index == s.row * (width \div 2) + s.col \div 2
             value      == PackPair(code1, code2)
         IN  IF byte_index >= Len(buf)
             THEN [s |-> Raise(s, "IndexError"), buf |-> buf]
             ELSE IF value > 255
             THEN [s |-> Raise(s, "ValueError"), buf |-> buf]
             ELSE [s |-> IF s.col + 2 < width
                         THEN [s EXCEPT !.col = s.col + 2]
                         ELSE IF s.row + 1 < height
                         THEN [s EXCEPT !.row = s.row + 1, !.col = 0]
                         ELSE [s EXCEPT !.pc = "return6"],
                   buf |-> [buf EXCEPT ![byte_index + 1] = value]]

\* ---- 7-colour variant ----

\* img.thumbnail((EPD_WIDTH, EPD_HEIGHT), LANCZOS)
DoThumbnail(s, width, height) ==
    [s EXCEPT !.pc = "paste", !.img = Thumbnail(s.img, width, height)]

\* the white background with the image pasted in its centre
DoPaste(s, width, height) ==
    LET x_offset == (width - s.img.w) \div 2
        y_offset == (height - s.img.h) \div 2
    IN  [s EXCEPT !.pc = "alloc7",
                  !.x_offset = x_offset,
                  !.y_offset = y_offset,
                  !.img = Pasted(s.img, width, height, x_offset, y_offset)]

\* one pass of the inner loop: one pixel into its nibble
DoPackPixel(s, buf, width, height) ==
    LET color        == find_closest_color(getpixel(s.img, s.col, s.row))
        buffer_index == s.row * (width \div 2) + s.col \div 2
    IN  IF buffer_index >= Len(buf)
        THEN [s |-> Raise(s, "IndexError"), buf |-> buf]
        ELSE [s |-> IF s.col + 1 < width
                    THEN [s EXCEPT !.col = s.col + 1]
                    ELSE IF s.row + 1 < height
                    THEN [s EXCEPT !.row = s.row + 1, !.col = 0]
                    ELSE [s EXCEPT !.pc = "return7"],
              buf |-> [buf EXCEPT ![buffer_index + 1] =
                          IF s.col % 2 = 0
                          THEN BitOr(color * 16, BitAnd(buf[buffer_index + 1], 15))
                          ELSE BitOr(BitAnd(buf[buffer_index + 1], 240), color)]]

\* ---- both ----

\* bytearray(EPD_WIDTH * EPD_HEIGHT // 2) and the start of the loops
DoAlloc(s, id) ==
    [s EXCEPT !.pc = IF s.req.variant = "six" THEN "pack6" ELSE "pack7",
              !.buf = id, !.row = 0, !.col = 0]

\* return bytes(...)
DoReturn(s, buf) == [s EXCEPT !.pc = "done", !.ret = buf]

(***************************************************************************)
(* Actions: one per step of a running conversion.  The display size and    *)
(* the palette are module-level and only read; the bytearray of a          *)
(* conversion is an object of its own on the heap.                         *)
(***************************************************************************)
SharedBuffer(c) == "a"

\* the object bytearray(...) returns to call c: a fresh one per call
FreshBuffer(c) == c

Locals(c, s) ==
    /\ call' = [call EXCEPT ![c] = s]
    /\ UNCHANGED <<EPD_WIDTH, EPD_HEIGHT, PALETTE, requests, heap, probe, answer>>

LocalsAndBuffer(c, s, buf) ==
    /\ call' = [call EXCEPT ![c] = s]
    /\ heap' = [heap EXCEPT ![s.buf] = buf]
    /\ UNCHANGED <<EPD_WIDTH, EPD_HEIGHT, PALETTE, requests, probe, answer>>

Open6(c) ==
    /\ c \in DOMAIN call
    /\ call[c].pc = "idle"
    /\ \E req \in requests :
          /\ req.variant = "six"
          /\ Locals(c, DoOpen(call[c], req))

Rotate6(c) ==
    /\ c \in DOMAIN call
    /\ call[c].pc = "rotate"
    /\ Locals(c, DoRotate(call[c]))

PreScale6(c) ==
    /\ c \in DOMAIN call
    /\ call[c].pc = "prescale"
    /\ Locals(c, DoPreScale(call[c]))

Fit6(c) ==
    /\ c \in DOMAIN call
    /\ call[c].pc = "fit"
    /\ Locals(c, DoFit(call[c], EPD_WIDTH, EPD_HEIGHT))

Crop6(c) ==
    /\ c \in DOMAIN call
    /\ call[c].pc = "crop"
    /\ Locals(c, DoCrop(call[c], EPD_WIDTH, EPD_HEIGHT))

Dither6(c) ==
    /\ c \in DOMAIN call
    /\ call[c].pc = "dither"
    /\ Locals(c, DoDither(call[c], PALETTE))

Alloc6(c) ==
    /\ c \in DOMAIN call
    /\ call[c].pc = "alloc6"
    /\ LocalsAndBuffer(c, DoAlloc(call[c], FreshBuffer(c)),
                       ByteArray(FrameLength(EPD_WIDTH, EPD_HEIGHT)))

PackPair6(c) ==
    /\ c \in DOMAIN call
    /\ call[c].pc = "pack6"
    /\ LET after == DoPackPair(call[c], heap[call[c].buf],
                               EPD_WIDTH, EPD_HEIGHT, PALETTE)
       IN  LocalsAndBuffer(c, after.s, after.buf)

Return6(c) ==
    /\ c \in DOMAIN call
    /\ call[c].pc = "return6"
    /\ Locals(c, DoReturn(call[c], heap[call[c].buf]))

Open7(c) ==
    /\ c \in DOMAIN call
    /\ call[c].pc = "idle"
    /\ \E req \in requests :
          /\ req.variant = "seven"
          /\ Locals(c, DoOpen(call[c], req))

Thumbnail7(c) ==
    /\ c \in DOMAIN call
    /\ call[c].pc = "thumbnail"
    /\ Locals(c, DoThumbnail(call[c], EPD_WIDTH, EPD_HEIGHT))

Paste7(c) ==
    /\ c \in DOMAIN call
    /\ call[c].pc = "paste"
    /\ Locals(c, DoPaste(call[c], EPD_WIDTH, EPD_HEIGHT))

Alloc7(c) ==
    /\ c \in DOMAIN call
    /\ call[c].pc = "alloc7"
    /\ LocalsAndBuffer(c, DoAlloc(call[c], FreshBuffer(c)),
                       ByteArray(FrameLength(EPD_WIDTH, EPD_HEIGHT)))

PackPixel7(c) ==
    /\ c \in DOMAIN call
    /\ call[c].pc = "pack7"
    /\ LET after == DoPackPixel(call[c], heap[call[c].buf], EPD_WIDTH, EPD_HEIGHT)
       IN  LocalsAndBuffer(c, after.s, after.buf)

Return7(c) ==
    /\ c \in DOMAIN call
    /\ call[c].pc = "return7"
    /\ Locals(c, DoReturn(call[c], heap[call[c].buf]))

\* the nearest-colour functions applied to the probe
Quantize ==
    /\ answer.asked = FALSE
    /\ answer' = [asked |-> TRUE,
                  six   |-> rgb_to_palette_code(PALETTE, probe),
                  seven |-> find_closest_color(probe)]
    /\ UNCHANGED <<EPD_WIDTH, EPD_HEIGHT, PALETTE, requests, call, heap, probe>>

(***************************************************************************)
(* Bounds and the sets the inputs are drawn from.                          *)
(***************************************************************************)
MaxHalfWidth == 2
MaxHeight == 2
MaxInput == 3
MaxSeed == 1
MaxSmallDim == 6
ChannelStep == 25

Callers == {"a", "b"}

RequestsOf(widths, heights, seeds) ==
    { [variant |-> v[1], width |-> wd, height |-> ht, seed |-> sd,
       use_dithering |-> v[2]] :
        v \in {<<"six", FALSE>>, <<"six", TRUE>>, <<"seven", FALSE>>},
        wd \in widths, ht \in heights, sd \in seeds }

SmallRequests == RequestsOf(1..MaxInput, 1..MaxInput, 0..MaxSeed)

\* raster sizes around the display size, the pre-scale ceiling and beyond
GeomDims ==
    (1..MaxSmallDim)
    \cup {49, 101, 479, 480, 481, 799, 800, 801, 1000, 1200, 1439, 1440, 1441,
          1600, 2399, 2400, 2401, 3000, 4000, 4800}

GeomRequests ==
    { req \in RequestsOf(GeomDims, GeomDims, {0}) : ~req.use_dithering }

\* PALETTE with the code of one colour changed
WithCode(palette, name, code) ==
    [i \in 1..Len(palette) |->
        IF palette[i].name = name THEN [palette[i] EXCEPT !.code = code]
        ELSE palette[i]]

ChannelValues ==
    { k * ChannelStep : k \in 0..(255 \div ChannelStep) }
    \cup {50, 80, 120, 125, 128, 180, 200, 255}

NotAsked == [asked |-> FALSE, six |-> 0, seven |-> 0]

Idle(callers) ==
    /\ call = [c \in callers |-> IdleCall]
    /\ heap = [c \in Callers |-> <<>>]
    /\ probe = Black
    /\ answer = [NotAsked EXCEPT !.asked = TRUE]

\* one conversion at a time, small displays of even width, the real palette
Init ==
    /\ EPD_WIDTH \in {2 * k : k \in 1..MaxHalfWidth}
    /\ EPD_HEIGHT \in 1..MaxHeight
    /\ PALETTE = Palette6
    /\ requests = SmallRequests
    /\ Idle({"a"})

\* two conversions running concurrently
InitConc ==
    /\ EPD_WIDTH = 2
    /\ EPD_HEIGHT \in 1..MaxHeight
    /\ PALETTE = Palette6
    /\ requests = RequestsOf({2}, {1, 2}, 0..1)
    /\ Idle(Callers)

\* other configurations: odd display widths, a palette code of 16
InitConfig ==
    /\ EPD_WIDTH \in 1..(2 * MaxHalfWidth + 1)
    /\ EPD_HEIGHT \in 1..MaxHeight
    /\ PALETTE \in {Palette6, WithCode(Palette6, "green", 16),
                    WithCode(Palette6, "black", 16)}
    /\ requests = SmallRequests
    /\ Idle({"a"})

\* the display of the code, rasters of real sizes, up to the packing loop
InitGeom ==
    /\ EPD_WIDTH = PanelWidth
    /\ EPD_HEIGHT = PanelHeight
    /\ PALETTE = Palette6
    /\ requests = GeomRequests
    /\ Idle({"a"})

\* the nearest-colour functions alone
InitQ ==
    /\ EPD_WIDTH = PanelWidth
    /\ EPD_HEIGHT = PanelHeight
    /\ PALETTE = Palette6
    /\ requests = {}
    /\ call = [c \in {} |-> IdleCall]
    /\ heap = [c \in Callers |-> <<>>]
    /\ probe \in ChannelValues \X ChannelValues \X ChannelValues
    /\ answer = NotAsked

Next ==
    \E c \in Callers :
        \/ Open6(c) \/ Rotate6(c) \/ PreScale6(c) \/ Fit6(c) \/ Crop6(c)
        \/ Dither6(c) \/ Alloc6(c) \/ PackPair6(c) \/ Return6(c)
        \/ Open7(c) \/ Thumbnail7(c) \/ Paste7(c) \/ Alloc7(c)
        \/ PackPixel7(c) \/ Return7(c)

NextGeom ==
    \E c \in Callers :
        \/ Open6(c) \/ Rotate6(c) \/ PreScale6(c) \/ Fit6(c) \/ Crop6(c)
        \/ Open7(c) \/ Thumbnail7(c) \/ Paste7(c)

NextQ == Quantize

Spec == Init /\ [][Next]_vars
SpecConc == InitConc /\ [][Next]_vars
SpecConfig == InitConfig /\ [][Next]_vars
SpecGeom == InitGeom /\ [][NextGeom]_vars
SpecQ == InitQ /\ [][NextQ]_vars

(***************************************************************************)
(* Properties of the returned frame.                                       *)
(***************************************************************************)
Done(c) == c \in DOMAIN call /\ call[c].pc = "done"

\* the palette code the packer of call c takes for pixel (col, row) of the
\* raster it packs
CodeAt(c, col, row) ==
    IF call[c].req.variant = "six"
    THEN rgb_to_palette_code(PALETTE, getpixel(call[c].img, col, row))
    ELSE find_closest_color(getpixel(call[c].img, col, row))

\* C1: in every returned frame, of either variant, the byte at index
\* row*(W/2)+k holds the code of pixel (2k, row) in its high nibble and the
\* code of pixel (2k+1, row) in its low nibble, for every row and every pair.
NibbleLayout ==
    \A c \in Callers :
        Done(c) =>
            \A row \in 0..(EPD_HEIGHT - 1), k \in 0..((EPD_WIDTH \div 2) - 1) :
                call[c].ret[row * (EPD_WIDTH \div 2) + k + 1]
                    = CodeAt(c, 2 * k, row) * 16 + CodeAt(c, 2 * k + 1, row)

\* a 6-colour frame of two rows and two pairs per row whose last byte holds
\* two different codes
NibbleLayoutReached ==
    /\ Done("a")
    /\ call["a"].req.variant = "six"
    /\ EPD_WIDTH = 4 /\ EPD_HEIGHT = 2
    /\ call["a"].ret[4] \div 16 # call["a"].ret[4] % 16
    /\ CodeAt("a", 2, 1) # CodeAt("a", 3, 1)

\* C2: every returned frame is exactly W*H/2 bytes long, whatever the size of
\* the upload, in both variants, dithered or not.
FrameSize ==
    \A c \in Callers :
        Done(c) => Len(call[c].ret) = (EPD_WIDTH * EPD_HEIGHT) \div 2

\* a dithered 3x1 upload returned as the 4 bytes of a 4x2 display
FrameSizeReached ==
    /\ Done("a")
    /\ call["a"].req.variant = "six" /\ call["a"].req.use_dithering
    /\ call["a"].req.width = 3 /\ call["a"].req.height = 1
    /\ EPD_WIDTH = 4 /\ EPD_HEIGHT = 2
    /\ Len(call["a"].ret) = 4

\* entry i of colors is nearest to rgb and no earlier entry is as near
FirstNearest(colors, rgb, i) ==
    /\ \A j \in 1..Len(colors) : Distance(rgb, colors[i]) <= Distance(rgb, colors[j])
    /\ \A j \in 1..(i - 1) : Distance(rgb, colors[i]) < Distance(rgb, colors[j])

\* C3: for every RGB triple, rgb_to_palette_code returns the code of the
\* first palette entry at minimal squared distance, and find_closest_color
\* the index of the first COLOR_RGB entry at minimal squared distance.
NearestFirst ==
    answer.asked =>
        /\ \E i \in 1..Len(PALETTE) :
              /\ FirstNearest([j \in 1..Len(PALETTE) |-> PALETTE[j].rgb], probe, i)
              /\ answer.six = PALETTE[i].code
        /\ \E i \in 1..Len(COLOR_RGB) :
              /\ FirstNearest(COLOR_RGB, probe, i)
              /\ answer.seven = i - 1

\* (200,125,125) is as far from red as from green: red, the earlier, is taken
NearestFirstReached ==
    /\ answer.asked
    /\ probe = <<200, 125, 125>>
    /\ Distance(probe, PALETTE[4].rgb) = Distance(probe, PALETTE[6].rgb)
    /\ answer.six = 3

\* C4: every nibble of every byte of a returned frame is a code of the
\* palette: one of 0, 1, 2, 3, 5, 6 in the 6-colour variant, one of 0..6 in
\* the 7-colour variant.
PaletteClosure ==
    \A c \in Callers :
        Done(c) =>
            \A i \in 1..Len(call[c].ret) :
                LET allowed == IF call[c].req.variant = "six"
                               THEN {0, 1, 2, 3, 5, 6} ELSE 0..6
                IN  /\ call[c].ret[i] \div 16 \in allowed
                    /\ call[c].ret[i] % 16 \in allowed

\* a 6-colour frame holding the codes of blue and green, 5 and 6
PaletteClosureReached ==
    /\ Done("a")
    /\ call["a"].req.variant = "six"
    /\ \E i, j \in 1..Len(call["a"].ret) :
          /\ 5 \in {call["a"].ret[i] \div 16, call["a"].ret[i] % 16}
          /\ 6 \in {call["a"].ret[j] \div 16, call["a"].ret[j] % 16}

(***************************************************************************)
(* Properties of the geometry: the display of the code, real sizes.        *)
(***************************************************************************)
\* the cells of the outline of a width x height raster
Outline(width, height) ==
    { <<col, row>> : col \in 0..(width - 1), row \in {0, height - 1} }
    \cup { <<col, row>> : col \in {0, width - 1}, row \in 0..(height - 1) }

\* C5: in the 6-colour variant the size the raster is scaled to covers the
\* display, with one side equal to the display's, and the centred crop box
\* starts at left >= 0, top >= 0 and ends inside the scaled raster: the
\* cropped raster is exactly W x H and none of its pixels is fill from
\* outside the scaled raster (checked on the outline of the box, which
\* bounds the rest).
CropFillInside ==
    \A c \in Callers :
        (c \in DOMAIN call /\ call[c].req.variant = "six") =>
            /\ call[c].pc \in {"crop", "dither"} =>
                  /\ call[c].new_width >= EPD_WIDTH
                  /\ call[c].new_height >= EPD_HEIGHT
                  /\ \/ call[c].new_width = EPD_WIDTH
                     \/ call[c].new_height = EPD_HEIGHT
            /\ call[c].pc = "dither" =>
                  /\ call[c].left >= 0
                  /\ call[c].top >= 0
                  /\ call[c].left + EPD_WIDTH <= call[c].new_width
                  /\ call[c].top + EPD_HEIGHT <= call[c].new_height
                  /\ call[c].img.w = EPD_WIDTH
                  /\ call[c].img.h = EPD_HEIGHT
                  /\ \A cell \in Outline(EPD_WIDTH, EPD_HEIGHT) :
                        PixelOrigin(call[c].img, cell[1], cell[2]).kind = "image"

\* a 1600x1200 upload: scaled to 800x600, cropped from row 60
CropFillInsideReached ==
    /\ "a" \in DOMAIN call
    /\ call["a"].pc = "dither"
    /\ call["a"].req.width = 1600 /\ call["a"].req.height = 1200
    /\ call["a"].new_width = 800 /\ call["a"].new_height = 600
    /\ call["a"].left = 0 /\ call["a"].top = 60

\* C6: in the 7-colour variant the scaled raster is no larger than the
\* display, both offsets are the centring ones and >= 0, the pasted
\* rectangle lies inside the canvas, every pixel of the scaled raster is on
\* the canvas at its offset, and every canvas pixel outside the rectangle is
\* the white background (checked on the outline of the scaled raster, the
\* outline of the canvas and the rows and columns next to the rectangle).
LetterboxInside ==
    \A c \in Callers :
        (c \in DOMAIN call /\ call[c].req.variant = "seven") =>
            /\ call[c].pc = "paste" =>
                  /\ call[c].img.w <= EPD_WIDTH
                  /\ call[c].img.h <= EPD_HEIGHT
            /\ call[c].pc = "alloc7" =>
                  LET scaled == call[c].img.of
                      x0 == call[c].x_offset
                      y0 == call[c].y_offset
                      inside(col, row) ==
                          /\ col >= x0 /\ col < x0 + scaled.w
                          /\ row >= y0 /\ row < y0 + scaled.h
                      rows == {0, y0 - 1, y0, y0 + scaled.h - 1, y0 + scaled.h,
                               EPD_HEIGHT - 1} \cap (0..(EPD_HEIGHT - 1))
                      cols == {0, x0 - 1, x0, x0 + scaled.w - 1, x0 + scaled.w,
                               EPD_WIDTH - 1} \cap (0..(EPD_WIDTH - 1))
                      asClaimed(col, row) ==
                          IF inside(col, row)
                          THEN PixelOrigin(call[c].img, col, row)
                                   = [kind |-> "image", col |-> col - x0,
                                      row |-> row - y0]
                          ELSE /\ PixelOrigin(call[c].img, col, row).kind
                                      = "background"
                               /\ getpixel(call[c].img, col, row) = White
                  IN  /\ x0 = (EPD_WIDTH - scaled.w) \div 2
                      /\ y0 = (EPD_HEIGHT - scaled.h) \div 2
                      /\ x0 >= 0 /\ y0 >= 0
                      /\ x0 + scaled.w <= EPD_WIDTH
                      /\ y0 + scaled.h <= EPD_HEIGHT
                      /\ call[c].img.w = EPD_WIDTH
                      /\ call[c].img.h = EPD_HEIGHT
                      /\ \A cell \in Outline(scaled.w, scaled.h) :
                            PixelOrigin(call[c].img, x0 + cell[1], y0 + cell[2])
                                = [kind |-> "image", col |-> cell[1],
                                   row |-> cell[2]]
                      /\ \A col \in 0..(EPD_WIDTH - 1), row \in rows :
                            asClaimed(col, row)
                      /\ \A col \in cols, row \in 0..(EPD_HEIGHT - 1) :
                            asClaimed(col, row)

\* a 1600x1200 upload: scaled to 640x480, pasted 80 columns in
LetterboxInsideReached ==
    /\ "a" \in DOMAIN call
    /\ call["a"].pc = "alloc7"
    /\ call["a"].req.width = 1600 /\ call["a"].req.height = 1200
    /\ call["a"].img.of.w = 640 /\ call["a"].img.of.h = 480
    /\ call["a"].x_offset = 80 /\ call["a"].y_offset = 0

\* C7: whatever the variant, no raster that is higher than wide reaches the
\* fitting step (the crop-to-fill of the 6-colour variant, the thumbnail of
\* the 7-colour variant): a portrait upload has been rotated by then.
PortraitRotatedBeforeFit ==
    \A c \in Callers :
        (c \in DOMAIN call /\ call[c].pc \in {"fit", "thumbnail"}) =>
            call[c].img.h <= call[c].img.w

(***************************************************************************)
(* Properties of the configuration.                                        *)
(***************************************************************************)
\* C8: with an odd display width (and the palette of the code) a conversion
\* of either variant returns no frame, neither a partial nor a full-length
\* one, and the only error it ends in is a ConfigurationError.
OddWidthRejected ==
    \A c \in Callers :
        (c \in DOMAIN call /\ EPD_WIDTH % 2 = 1 /\ PALETTE = Palette6) =>
            /\ call[c].pc # "done"
            /\ call[c].ret = <<>>
            /\ call[c].pc = "error" => call[c].err = "ConfigurationError"

\* C9: with a palette that holds a code outside 0..15 (on a display of even
\* width) no conversion reaches the packing loop, none returns a frame, and
\* the only error one ends in is a ConfigurationError, never one raised by
\* the packing loop.
CodeRangeRejected ==
    \A c \in Callers :
        (/\ c \in DOMAIN call
         /\ call[c].req.variant = "six"
         /\ EPD_WIDTH % 2 = 0
         /\ \E i \in 1..Len(PALETTE) : PALETTE[i].code \notin 0..15) =>
            /\ call[c].pc \notin {"pack6", "return6", "done"}
            /\ call[c].pc = "error" => call[c].err = "ConfigurationError"

(***************************************************************************)
(* Properties of concurrent conversions.                                   *)
(***************************************************************************)
\* one step of a conversion that runs alone, on locals and a bytearray no
\* other conversion can reach
StepAlone(s, buf, width, height, palette) ==
    CASE s.pc = "rotate"    -> [s |-> DoRotate(s), buf |-> buf]
      [] s.pc = "prescale"  -> [s |-> DoPreScale(s), buf |-> buf]
      [] s.pc = "fit"       -> [s |-> DoFit(s, width, height), buf |-> buf]
      [] s.pc = "crop"      -> [s |-> DoCrop(s, width, height), buf |-> buf]
      [] s.pc = "dither"    -> [s |-> DoDither(s, palette), buf |-> buf]
      [] s.pc = "thumbnail" -> [s |-> DoThumbnail(s, width, height), buf |-> buf]
      [] s.pc = "paste"     -> [s |-> DoPaste(s, width, height), buf |-> buf]
      [] s.pc \in {"alloc6", "alloc7"} ->
            [s |-> DoAlloc(s, "alone"), buf |-> ByteArray(FrameLength(width, height))]
      [] s.pc = "pack6"     -> DoPackPair(s, buf, width, height, palette)
      [] s.pc = "pack7"     -> DoPackPixel(s, buf, width, height)
      [] s.pc \in {"return6", "return7"} -> [s |-> DoReturn(s, buf), buf |-> buf]

RECURSIVE RunFrom(_, _, _, _)
RunFrom(at, width, height, palette) ==
    IF at.s.pc \in {"done", "error"} THEN at.s
    ELSE The({ RunFrom(nxt, width, height, palette) :
               nxt \in {StepAlone(at.s, at.buf, width, height, palette)} })

\* the frame the conversion of req returns when nothing else runs
FrameAlone(req, width, height, palette) ==
    RunFrom([s |-> DoOpen(IdleCall, req), buf |-> <<>>], width, height, palette).ret

\* C10: whatever the interleaving of two conversions, each returns the frame
\* its request yields when it runs alone, and two conversions of the same
\* request return the same frame.
Isolation ==
    /\ \A c \in Callers :
          Done(c) =>
              call[c].ret = FrameAlone(call[c].req, EPD_WIDTH, EPD_HEIGHT, PALETTE)
    /\ \A c, d \in Callers :
          (Done(c) /\ Done(d) /\ call[c].req = call[d].req) =>
              call[c].ret = call[d].ret

\* two conversions have returned, a dithered 6-colour one and a 7-colour one,
\* with different frames of two bytes
IsolationReached ==
    /\ Done("a") /\ Done("b")
    /\ call["a"].req.variant = "six" /\ call["a"].req.use_dithering
    /\ call["b"].req.variant = "seven"
    /\ Len(call["a"].ret) = 2
    /\ call["a"].ret # call["b"].ret

(***************************************************************************)
(* Properties of the pre-scale step.                                       *)
(***************************************************************************)
\* C11: every pre-scale step of the 6-colour variant leaves a raster of
\* width <= 2400 and height <= 1440, neither side larger than before the
\* step, both sides >= 1; it changes the raster only when the width was
\* above 2400 or the height above 1440, and a raster within the ceiling
\* comes out as it went in.
PreScaleBounded ==
    [][\A c \in Callers :
          (c \in DOMAIN call /\ call[c].pc = "prescale" /\ call'[c].pc = "fit") =>
              LET before == call[c].img
                  after  == call'[c].img
              IN  /\ after.w <= 2400 /\ after.h <= 1440
                  /\ after.w <= before.w /\ after.h <= before.h
                  /\ after.w >= 1 /\ after.h >= 1
                  /\ after # before => (before.w > 2400 \/ before.h > 1440)
                  /\ (before.w <= 2400 /\ before.h <= 1440) => after = before]_vars

\* a 4000x3000 upload after the step: scaled to 1920x1440
PreScaleBoundedReached ==
    /\ "a" \in DOMAIN call
    /\ call["a"].pc = "fit"
    /\ call["a"].req.width = 4000 /\ call["a"].req.height = 3000
    /\ call["a"].img.op = "resize"
    /\ call["a"].img.of.w = 4000 /\ call["a"].img.of.h = 3000
    /\ call["a"].img.w = 1920 /\ call["a"].img.h = 1440

(***************************************************************************)
(* Properties of the packing of a dithered raster.                         *)
(***************************************************************************)
\* the 6-colour call c holds the raster the dithering produced
HoldsDithered(c) ==
    /\ c \in DOMAIN call
    /\ call[c].req.variant = "six"
    /\ call[c].req.use_dithering
    /\ call[c].pc \in {"alloc6", "pack6", "return6", "done"}

\* C12: the six palette colours are pairwise distinct and rgb_to_palette_code
\* maps each of them to its own code, and (0,0,0), the colour of the padded
\* palette slots, to code 0; every pixel of a dithered raster is one of the
\* six colours, and the nibble a returned frame holds for it is the code of
\* the palette entry with that colour.
RequantizeIdentity ==
    /\ \A i, j \in 1..Len(PALETTE) :
          i # j => PALETTE[i].rgb # PALETTE[j].rgb
    /\ \A i \in 1..Len(PALETTE) :
          rgb_to_palette_code(PALETTE, PALETTE[i].rgb) = PALETTE[i].code
    /\ rgb_to_palette_code(PALETTE, <<0, 0, 0>>) = 0
    /\ \A c \in Callers :
          HoldsDithered(c) =>
              \A row \in 0..(EPD_HEIGHT - 1), col \in 0..(EPD_WIDTH - 1) :
                  \E i \in 1..Len(PALETTE) :
                      /\ PALETTE[i].rgb = getpixel(call[c].img, col, row)
                      /\ Done(c) =>
                            LET byte == call[c].ret[row * (EPD_WIDTH \div 2)
                                                    + (col \div 2) + 1]
                            IN  PALETTE[i].code = IF col % 2 = 0 THEN byte \div 16
                                                  ELSE byte % 16

\* a returned dithered frame with a yellow pixel packed as 2 and a blue pixel
\* packed as 5
RequantizeIdentityReached ==
    /\ HoldsDithered("a") /\ Done("a")
    /\ \E k, n \in 1..Len(call["a"].img.px) :
          /\ call["a"].img.px[k] = <<255, 255, 0>>
          /\ call["a"].img.px[n] = <<100, 120, 180>>
          /\ k % 2 = 1 /\ call["a"].ret[(k + 1) \div 2] \div 16 = 2
          /\ n % 2 = 0 /\ call["a"].ret[n \div 2] % 16 = 5

====
